---- MODULE Spec2Model ----
(***************************************************************************)
(* The intent router of the Sahaayak AI backend                            *)
(* (Backend/agents/orchestrator.py, class OrchestratorAgent).              *)
(*                                                                         *)
(* A text is a sequence of Unicode code points.  A Python value is a       *)
(* tagged record: [kind |-> "str", text |-> <<code points>>],              *)
(* [kind |-> "int", number |-> n], [kind |-> "none"],                      *)
(* [kind |-> "list", items |-> <<strings>>] (a list of strings) and        *)
(* [kind |-> "dict", entries |-> f] (f a function from keys to values).    *)
(* A request is the function from its keys to its values.                  *)
(* Scores are kept exactly, in units of 1/84 (ScoreUnit), confidences in   *)
(* units of 1/100 (Python computes both in binary floating point; the      *)
(* values that occur are told apart by far more than its rounding error).  *)
(***************************************************************************)
EXTENDS Integers, Sequences, FiniteSets, TLC

(***************************************************************************)
(* Characters and strings                                                  *)
(***************************************************************************)

\* Printable ASCII characters in code-point order: 32..64, 65..90, 91..95,
\* 97..122.
AsciiPunctDigits == " !\"#$%&'()*+,-./0123456789:;<=>?@"
AsciiUpper == "ABCDEFGHIJKLMNOPQRSTUVWXYZ"
AsciiBrackets == "[\\]^_"
AsciiLower == "abcdefghijklmnopqrstuvwxyz"

\* The position of the one-character string c in s, 0 if it is not there.
IndexIn(s, c) ==
  LET hits == {i \in 1..Len(s) : SubSeq(s, i, i) = c}
  IN IF hits = {} THEN 0 ELSE CHOOSE i \in hits : TRUE

\* The code point of a one-character ASCII string.
Ord(c) ==
  IF IndexIn(AsciiLower, c) > 0 THEN 96 + IndexIn(AsciiLower, c)
  ELSE IF IndexIn(AsciiUpper, c) > 0 THEN 64 + IndexIn(AsciiUpper, c)
  ELSE IF IndexIn(AsciiBrackets, c) > 0 THEN 90 + IndexIn(AsciiBrackets, c)
  ELSE 31 + IndexIn(AsciiPunctDigits, c)

\* The one-character strings of s.
CharsOf(s) == {SubSeq(s, i, i) : i \in 1..Len(s)}

\* The code point of every printable ASCII character, tabulated.
CodePoint ==
  [c \in CharsOf(AsciiPunctDigits) \cup CharsOf(AsciiUpper)
         \cup CharsOf(AsciiBrackets) \cup CharsOf(AsciiLower) |-> Ord(c)]

\* The text (code points) of a printable ASCII string literal.
Codes(s) == [i \in 1..Len(s) |-> CodePoint[SubSeq(s, i, i)]]

\* str.lower() / re.IGNORECASE folding of one code point (ASCII letters;
\* the code points of the Indic blocks have no case).
LowerChar(c) == IF c >= 65 /\ c <= 90 THEN c + 32 ELSE c

\* str.lower()
Lower(t) == [i \in 1..Len(t) |-> LowerChar(t[i])]

\* The element of a one-element set.  A local variable x = v used in e is
\* written Only({e : x \in {v}}): v is computed once.
Only(S) == CHOOSE r \in S : TRUE

\* str.isspace() of one code point, for the code points of the model.
IsSpace(c) == c \in {9, 10, 11, 12, 13, 32}

\* str.strip(): drop leading and trailing whitespace.
Strip(t) ==
  IF \A i \in 1..Len(t) : IsSpace(t[i]) THEN <<>>
  ELSE SubSeq(t,
              CHOOSE i \in 1..Len(t) :
                ~IsSpace(t[i]) /\ \A j \in 1..(i - 1) : IsSpace(t[j]),
              CHOOSE i \in 1..Len(t) :
                ~IsSpace(t[i]) /\ \A j \in (i + 1)..Len(t) : IsSpace(t[j]))

\* lit occurs in t starting at position i.
OccursAt(lit, t, i) ==
  /\ i + Len(lit) - 1 <= Len(t)
  /\ \A k \in 1..Len(lit) : t[i + k - 1] = lit[k]

\* Python's `lit in t` for strings: substring test.
Contains(t, lit) == \E i \in 1..(Len(t) - Len(lit) + 1) : OccursAt(lit, t, i)

(***************************************************************************)
(* Regular expressions of the rule table.  Every pattern of the table is   *)
(* a sequence of groups joined by ".*?", every group an alternation, and   *)
(* every alternative a literal or literals joined by ".*?".  A pattern is  *)
(* kept as the sequence of its groups, a group as the set of its           *)
(* alternatives, an alternative as the sequence of its literals (a chain). *)
(* All patterns carry (?i).                                                *)
(***************************************************************************)

\* The group (a|b|...) of plain literals.
Lits(S) == {<<Codes(s)>> : s \in S}

\* The alternative a.*?b.
Gap(a, b) == <<Codes(a), Codes(b)>>

\* "." does not match a newline: t[from..to] holds no newline.
NoNewline(t, from, to) == \A k \in from..to : t[k] # 10

\* The rest of a chain matches t from position `from`: each literal is
\* preceded by ".*?", any run of characters other than newline.
RECURSIVE ChainFrom(_, _, _)
ChainFrom(chain, t, from) ==
  IF chain = <<>> THEN TRUE
  ELSE \E j \in from..(Len(t) - Len(Head(chain)) + 1) :
         /\ OccursAt(Head(chain), t, j)
         /\ NoNewline(t, from, j - 1)
         /\ ChainFrom(Tail(chain), t, j + Len(Head(chain)))

\* re.search of the chain in t (already case-folded).
ChainMatches(chain, t) ==
  \E i \in 1..(Len(t) - Len(Head(chain)) + 1) :
    /\ OccursAt(Head(chain), t, i)
    /\ ChainFrom(Tail(chain), t, i + Len(Head(chain)))

\* A compiled pattern is the set of its chains: one alternative of every
\* group, in order.
RECURSIVE Re(_)
Re(groups) ==
  IF groups = <<>> THEN {<<>>}
  ELSE {a \o rest : a \in Head(groups), rest \in Re(Tail(groups))}

\* re.search(pattern, text) with (?i), given the case-folded text: some
\* chain of the pattern matches.
ReSearch(pattern, folded) == \E chain \in pattern : ChainMatches(chain, folded)

(***************************************************************************)
(* The rule table built by OrchestratorAgent.__init__: a dict, kept as the *)
(* sequence of its entries in insertion order.                             *)
(***************************************************************************)

Keywords(ws) == [i \in 1..Len(ws) |-> Codes(ws[i])]

IntentPatternsInit == <<
  [intent |-> "content_generation",
   patterns |-> <<
     Re(<<Lits({"create", "generate", "write", "make"}),
          Lits({"story", "lesson", "content", "explanation"})>>),
     Re(<<Lits({"tell", "create"}), Lits({"story", "tale"})>>),
     Re(<<Lits({"explain", "describe"}), Lits({"concept", "topic", "subject"})>>),
     Re(<<Lits({"content", "material"}), Lits({"generation", "creation"})>>) >>,
   keywords |-> Keywords(<<"story", "lesson", "content", "explanation",
                           "generate", "create", "write">>),
   agent |-> "ContentGenerator"],
  [intent |-> "question_answering",
   patterns |-> <<
     Re(<<Lits({"what", "how", "why", "when", "where", "who"}), Lits({"?"})>>),
     Re(<<Lits({"explain", "tell me", "help"}), Lits({"about", "with"})>>),
     Re(<<Lits({"question", "ask", "doubt", "clarify"})>>),
     Re(<<Lits({"can you", "could you", "please"}),
          Lits({"help", "explain", "tell"})>>) >>,
   keywords |-> Keywords(<<"what", "how", "why", "question", "ask", "help",
                           "explain">>),
   agent |-> "KnowledgeExplainer"],
  [intent |-> "material_adaptation",
   patterns |-> <<
     Re(<<Lits({"worksheet", "exercise", "activity"}),
          Lits({"create", "make", "generate"})>>),
     Re(<<Lits({"textbook", "book", "page"}),
          Lits({"adapt", "convert", "transform"})>>),
     Re(<<{Gap("grade", "level"), Gap("difficulty", "level")}>>),
     Re(<<Lits({"image", "picture", "photo"}), Lits({"worksheet", "exercise"})>>) >>,
   keywords |-> Keywords(<<"worksheet", "exercise", "textbook", "adapt",
                           "grade", "level">>),
   agent |-> "MaterialAdapter"],
  [intent |-> "visual_aid",
   patterns |-> <<
     Re(<<Lits({"diagram", "chart", "visual", "drawing"}),
          Lits({"create", "make", "generate"})>>),
     Re(<<Lits({"blackboard", "board"}), Lits({"diagram", "drawing"})>>),
     Re(<<{Gap("visual", "aid"), Gap("visual", "help")}>>),
     Re(<<Lits({"draw", "sketch", "illustrate"})>>) >>,
   keywords |-> Keywords(<<"diagram", "visual", "drawing", "chart",
                           "blackboard", "draw">>),
   agent |-> "VisualAid"],
  [intent |-> "assessment",
   patterns |-> <<
     Re(<<Lits({"reading", "fluency", "pronunciation"}),
          Lits({"assessment", "evaluation", "check"})>>),
     Re(<<Lits({"audio", "voice", "speech"}),
          Lits({"evaluate", "assess", "check"})>>),
     Re(<<{Gap("student", "reading"), Gap("reading", "student")}>>) >>,
   keywords |-> Keywords(<<"reading", "fluency", "assessment", "audio",
                           "evaluate", "speech">>),
   agent |-> "Assessment"],
  [intent |-> "lesson_planning",
   patterns |-> <<
     Re(<<{Gap("lesson", "plan"), Gap("weekly", "plan"), Gap("plan", "lesson")}>>),
     Re(<<Lits({"schedule", "planning", "curriculum"})>>),
     Re(<<{Gap("week", "activity"), Gap("daily", "activity")}>>),
     Re(<<{Gap("plan", "week"), Gap("plan", "day")}>>) >>,
   keywords |-> Keywords(<<"lesson", "plan", "schedule", "weekly",
                           "curriculum", "activity">>),
   agent |-> "LessonPlanner"] >>

\* The table with its first entry removed.
RuleTablePopped(table) == Tail(table)

\* The rule table after a call of a method of the agent: no method assigns
\* self.intent_patterns or changes the dict or its entries.
RuleTableAfter(table) == table

\* `intent in table` and table[intent] for the dict.
HasIntent(table, intent) == \E i \in 1..Len(table) : table[i].intent = intent

\* The entry of the default intent, whatever the intent.
EntryFallback(table, intent) ==
  table[CHOOSE i \in 1..Len(table) : table[i].intent = "question_answering"]

Entry(table, intent) ==
  table[CHOOSE i \in 1..Len(table) : table[i].intent = intent]

(***************************************************************************)
(* _detect_intent.  Scores are in units of 1/84, which keeps                *)
(* 2.0 + (k / n) * 1.5 exact for the keyword counts n = 6 and n = 7 of the  *)
(* table.                                                                   *)
(***************************************************************************)

\* score += 2.0
PatternScore == 168
\* ... * 1.5
KeywordWeight == 126
\* if best_score < 0.5
ScoreFloor == 42

\* for pattern in config["patterns"]: if re.search(...): break
PatternHit(config, folded) ==
  \E p \in 1..Len(config.patterns) : ReSearch(config.patterns[p], folded)

\* Every occurrence of a keyword counted, not every keyword found.
KeywordOccurrences(config, input_lower) ==
  Cardinality({at \in (1..Len(config.keywords)) \X (1..Len(input_lower)) :
                 OccursAt(Lower(config.keywords[at[1]]), input_lower, at[2])})

\* keyword_matches: the keywords of the list found in the lowercased input.
KeywordMatches(config, input_lower) ==
  Cardinality({k \in 1..Len(config.keywords) :
                 Contains(input_lower, Lower(config.keywords[k]))})

\* The score without the part for a pattern match.
ScoreOfKeywordsOnly(hit, keyword_matches, keyword_count) ==
  IF keyword_count > 0
  THEN (keyword_matches * KeywordWeight) \div keyword_count
  ELSE 0

\* The keywords counted, a quarter of a point each, instead of the share
\* of the keywords of the rule.
ScoreOfKeywordCount(hit, keyword_matches, keyword_count) ==
  (IF hit THEN PatternScore ELSE 0)
  + (IF keyword_count > 0 THEN keyword_matches * (KeywordWeight \div 6) ELSE 0)

\* score = 0.0; score += 2.0 on a pattern match;
\* if config["keywords"]: score += (keyword_matches / len(keywords)) * 1.5
ScoreOf(hit, keyword_matches, keyword_count) ==
  (IF hit THEN PatternScore ELSE 0)
  + (IF keyword_count > 0
     THEN (keyword_matches * KeywordWeight) \div keyword_count
     ELSE 0)

\* One pass of the loop over the table: what the pass found for the rule
\* and the score it stores in intent_scores.
ScoreRule(config, input_lower) ==
  Only({[intent |-> config.intent,
         pattern_hit |-> found[1],
         keyword_matches |-> found[2],
         score |-> ScoreOf(found[1], found[2], Len(config.keywords))] :
          found \in {<<PatternHit(config, input_lower),
                       KeywordMatches(config, input_lower)>>}})

\* intent_scores after the first n rules of the table, in insertion order.
RECURSIVE ScoresUpTo(_, _, _)
ScoresUpTo(table, input_lower, n) ==
  IF n = 0 THEN <<>>
  ELSE Append(ScoresUpTo(table, input_lower, n - 1), ScoreRule(table[n], input_lower))

\* intent_scores when the loop ends.  The patterns carry (?i) and the
\* keywords are sought in input_text.lower(): both see the folded text.
IntentScores(table, input_text) ==
  Only({ScoresUpTo(table, input_lower, Len(table)) :
          input_lower \in {Lower(input_text)}})

\* max with the last of the largest scores instead of the first.
MaxKeyLast(scores) ==
  CHOOSE i \in 1..Len(scores) :
    /\ \A j \in 1..Len(scores) : scores[j].score <= scores[i].score
    /\ \A j \in (i + 1)..Len(scores) : scores[j].score < scores[i].score

\* max(intent_scores, key=intent_scores.get): the first key, in insertion
\* order, whose score is the largest.
MaxKey(scores) ==
  CHOOSE i \in 1..Len(scores) :
    /\ \A j \in 1..Len(scores) : scores[j].score <= scores[i].score
    /\ \A j \in 1..(i - 1) : scores[j].score < scores[i].score

\* The floor applied with <= instead of <.
BestIntentFloorIncluded(intent_scores) ==
  IF Len(intent_scores) > 0
  THEN IF intent_scores[MaxKey(intent_scores)].score <= ScoreFloor
       THEN "question_answering"
       ELSE intent_scores[MaxKey(intent_scores)].intent
  ELSE "question_answering"

\* The largest score wins whatever it is: no floor.
BestIntentWithoutFloor(intent_scores) ==
  IF Len(intent_scores) > 0
  THEN intent_scores[MaxKey(intent_scores)].intent
  ELSE "question_answering"

\* The fallback naming an intent that is no key of the rule table.
BestIntentUnregistered(intent_scores) ==
  IF Len(intent_scores) > 0
  THEN IF intent_scores[MaxKey(intent_scores)].score < ScoreFloor
       THEN "general"
       ELSE intent_scores[MaxKey(intent_scores)].intent
  ELSE "general"

\* The intent _detect_intent returns, given its intent_scores.
BestIntent(intent_scores) ==
  IF Len(intent_scores) > 0
  THEN IF intent_scores[MaxKey(intent_scores)].score < ScoreFloor
       THEN "question_answering"
       ELSE intent_scores[MaxKey(intent_scores)].intent
  ELSE "question_answering"

\* _detect_intent(input_text): the intent returned, with the scores the
\* run computed.
DetectIntentRun(table, input_text) ==
  Only({[intent |-> BestIntent(scores), intent_scores |-> scores] :
          scores \in {IntentScores(table, input_text)}})

DetectIntent(table, input_text) == DetectIntentRun(table, input_text).intent

(***************************************************************************)
(* _detect_language: the first script block, in the order of the checks,   *)
(* that has a character in the text.                                       *)
(***************************************************************************)

\* re.search(r'[lo-hi]', text)
HasCharIn(text, lo, hi) == \E i \in 1..Len(text) : text[i] >= lo /\ text[i] <= hi

\* The language of the block the code point c lies in, "en" if in none.
BlockOf(c) ==
  IF c >= 2304 /\ c <= 2431 THEN "hi"
  ELSE IF c >= 2944 /\ c <= 3071 THEN "ta"
  ELSE IF c >= 2432 /\ c <= 2559 THEN "bn"
  ELSE IF c >= 2688 /\ c <= 2815 THEN "gu"
  ELSE IF c >= 3200 /\ c <= 3327 THEN "kn"
  ELSE "en"

\* The script of the first character of the text that is in a block.
DetectLanguageFirstChar(text) ==
  IF \A i \in 1..Len(text) : BlockOf(text[i]) = "en" THEN "en"
  ELSE BlockOf(text[CHOOSE i \in 1..Len(text) :
                      /\ BlockOf(text[i]) # "en"
                      /\ \A j \in 1..(i - 1) : BlockOf(text[j]) = "en"])

\* The Kannada check run over the Malayalam block as well.
DetectLanguageWide(text) ==
  IF HasCharIn(text, 2304, 2431) THEN "hi"
  ELSE IF HasCharIn(text, 2944, 3071) THEN "ta"
  ELSE IF HasCharIn(text, 2432, 2559) THEN "bn"
  ELSE IF HasCharIn(text, 2688, 2815) THEN "gu"
  ELSE IF HasCharIn(text, 3200, 3455) THEN "kn"
  ELSE "en"

DetectLanguage(text) ==
  IF HasCharIn(text, 2304, 2431) THEN "hi"        \* \u0900-\u097F
  ELSE IF HasCharIn(text, 2944, 3071) THEN "ta"   \* \u0B80-\u0BFF
  ELSE IF HasCharIn(text, 2432, 2559) THEN "bn"   \* \u0980-\u09FF
  ELSE IF HasCharIn(text, 2688, 2815) THEN "gu"   \* \u0A80-\u0AFF
  ELSE IF HasCharIn(text, 3200, 3327) THEN "kn"   \* \u0C80-\u0CFF
  ELSE "en"

(***************************************************************************)
(* Python values and the request record                                    *)
(***************************************************************************)

StrVal(t) == [kind |-> "str", text |-> t]
IntVal(n) == [kind |-> "int", number |-> n]
NoneVal == [kind |-> "none"]
ListVal(l) == [kind |-> "list", items |-> l]
DictVal(f) == [kind |-> "dict", entries |-> f]

\* The empty dict: the function with no key.
NoKeys == [k \in {} |-> NoneVal]

\* bool(v)
Truthy(v) ==
  CASE v.kind = "str" -> Len(v.text) > 0
    [] v.kind = "int" -> v.number # 0
    [] v.kind = "none" -> FALSE
    [] v.kind = "list" -> Len(v.items) > 0
    [] v.kind = "dict" -> DOMAIN v.entries # {}

\* str(n) for a natural number n.
RECURSIVE Digits(_)
Digits(n) ==
  IF n < 10 THEN <<48 + n>> ELSE Append(Digits(n \div 10), 48 + (n % 10))

\* ", ".join(repr(x) for x in items) for a list of quote-free strings.
RECURSIVE ReprItems(_)
ReprItems(items) ==
  IF items = <<>> THEN <<>>
  ELSE <<39>> \o Codes(Head(items)) \o <<39>>
       \o (IF Len(items) > 1 THEN <<44, 32>> ELSE <<>>)
       \o ReprItems(Tail(items))

\* str(v) for the values a candidate field holds.
PyStr(v) ==
  CASE v.kind = "str" -> v.text
    [] v.kind = "int" -> Digits(v.number)
    [] v.kind = "none" -> Codes("None")
    [] v.kind = "list" -> <<91>> \o ReprItems(v.items) \o <<93>>

\* text_fields
TextFields == <<"text", "input", "query", "prompt", "message", "content">>

\* A returned value and a raised exception.
Return(v) == [status |-> "return", value |-> v]
Raise(e) == [status |-> "raise", error |-> e]

\* The first field of text_fields, in order, that is a key of the dict d
\* with a truthy value; 0 if there is none.
FirstTruthy(d) ==
  LET hits == {i \in 1..Len(TextFields) :
                 TextFields[i] \in DOMAIN d /\ Truthy(d[TextFields[i]])}
  IN IF hits = {} THEN 0 ELSE CHOOSE i \in hits : \A j \in hits : i <= j

\* `field in data` for a data entry that is no dict: a substring test on a
\* string, an element test on a list.
FieldIn(field, data) ==
  CASE data.kind = "str" -> Contains(data.text, Codes(field))
    [] data.kind = "list" -> \E i \in 1..Len(data.items) : data.items[i] = field

\* The loop over request_data["data"].
ExtractNested(data) ==
  CASE data.kind = "dict" ->
         IF FirstTruthy(data.entries) = 0 THEN Return(<<>>)
         ELSE Return(Strip(PyStr(data.entries[TextFields[FirstTruthy(data.entries)]])))
    [] data.kind \in {"none", "int"} ->
         \* `field in data`: argument of this type is not iterable
         Raise("TypeError")
    [] data.kind \in {"str", "list"} ->
         \* data[field] with a str key: indices must be integers
         IF \E i \in 1..Len(TextFields) : FieldIn(TextFields[i], data)
         THEN Raise("TypeError") ELSE Return(<<>>)

\* _extract_input_text(request_data)
ExtractInputText(request_data) ==
  IF FirstTruthy(request_data) # 0
  THEN Return(Strip(PyStr(request_data[TextFields[FirstTruthy(request_data)]])))
  ELSE IF "data" \in DOMAIN request_data
       THEN ExtractNested(request_data["data"])
       ELSE Return(<<>>)

(***************************************************************************)
(* _get_processing_hints, _get_routing_info, process                       *)
(***************************************************************************)

\* _get_processing_hints(intent, request_data): a dict, as a function of
\* its keys.
BaseHints ==
  [priority |-> "normal", expected_output_type |-> "text",
   processing_time_estimate |-> "fast"]

\* The hints for media following the keys of the request, not the intent.
GetProcessingHintsByRequest(intent, request_data) ==
  IF "image" \in DOMAIN request_data
  THEN [priority |-> "normal", expected_output_type |-> "text_and_image",
        processing_time_estimate |-> "slow", requires_image_processing |-> TRUE]
  ELSE IF "audio" \in DOMAIN request_data
  THEN [priority |-> "normal", expected_output_type |-> "structured_feedback",
        processing_time_estimate |-> "slow", requires_audio_processing |-> TRUE]
  ELSE BaseHints

GetProcessingHints(intent, request_data) ==
  CASE intent = "content_generation" ->
         [priority |-> "normal", expected_output_type |-> "text",
          processing_time_estimate |-> "medium", content_type |-> "educational"]
    [] intent = "material_adaptation" ->
         [priority |-> "normal", expected_output_type |-> "text_and_image",
          processing_time_estimate |-> "slow", requires_image_processing |-> TRUE]
    [] intent = "visual_aid" ->
         [priority |-> "normal", expected_output_type |-> "image_description",
          processing_time_estimate |-> "medium",
          output_format |-> "diagram_instructions"]
    [] intent = "assessment" ->
         [priority |-> "normal", expected_output_type |-> "structured_feedback",
          processing_time_estimate |-> "slow", requires_audio_processing |-> TRUE]
    [] intent = "lesson_planning" ->
         [priority |-> "normal", expected_output_type |-> "structured_plan",
          processing_time_estimate |-> "medium", output_format |-> "weekly_schedule"]
    [] OTHER -> BaseHints

\* confidence = 0.8, 0.3; += 0.1; += 0.15; min(confidence, 1.0); the
\* length threshold of len(input_text) > 50.
BaseConfidence == 80
FallbackConfidence == 30
LengthBonus == 10
MediaBonus == 15
ConfidenceCap == 100
LongInput == 50

Min(a, b) == IF a <= b THEN a ELSE b

\* The confidence before the cap, without the bonuses for media.
RawConfidenceNoMedia(table, intent, request_data, input_text) ==
  (IF HasIntent(table, intent) THEN BaseConfidence ELSE FallbackConfidence)
  + (IF Len(input_text) > LongInput THEN LengthBonus ELSE 0)

\* The bonus for length given from 50 characters on.
RawConfidenceLengthInclusive(table, intent, request_data, input_text) ==
  (IF HasIntent(table, intent) THEN BaseConfidence ELSE FallbackConfidence)
  + (IF Len(input_text) >= LongInput THEN LengthBonus ELSE 0)
  + (IF intent = "material_adaptation"
        /\ ("image" \in DOMAIN request_data \/ "file" \in DOMAIN request_data)
     THEN MediaBonus ELSE 0)
  + (IF intent = "assessment" /\ "audio" \in DOMAIN request_data
     THEN MediaBonus ELSE 0)

\* The bonus for media given for a key that holds a payload only.
RawConfidencePayload(table, intent, request_data, input_text) ==
  (IF HasIntent(table, intent) THEN BaseConfidence ELSE FallbackConfidence)
  + (IF Len(input_text) > LongInput THEN LengthBonus ELSE 0)
  + (IF intent = "material_adaptation"
        /\ \E k \in {"image", "file"} :
             k \in DOMAIN request_data /\ Truthy(request_data[k])
     THEN MediaBonus ELSE 0)
  + (IF intent = "assessment"
        /\ "audio" \in DOMAIN request_data /\ Truthy(request_data["audio"])
     THEN MediaBonus ELSE 0)

\* The base confidence of a registered intent given to every intent.
RawConfidenceNoFallback(table, intent, request_data, input_text) ==
  BaseConfidence
  + (IF Len(input_text) > LongInput THEN LengthBonus ELSE 0)
  + (IF intent = "material_adaptation"
        /\ ("image" \in DOMAIN request_data \/ "file" \in DOMAIN request_data)
     THEN MediaBonus ELSE 0)
  + (IF intent = "assessment" /\ "audio" \in DOMAIN request_data
     THEN MediaBonus ELSE 0)

\* The confidence before the cap.
RawConfidence(table, intent, request_data, input_text) ==
  (IF HasIntent(table, intent) THEN BaseConfidence ELSE FallbackConfidence)
  + (IF Len(input_text) > LongInput THEN LengthBonus ELSE 0)
  + (IF intent = "material_adaptation"
        /\ ("image" \in DOMAIN request_data \/ "file" \in DOMAIN request_data)
     THEN MediaBonus ELSE 0)
  + (IF intent = "assessment" /\ "audio" \in DOMAIN request_data
     THEN MediaBonus ELSE 0)

\* The confidence without the cap.
ConfidenceUncapped(table, intent, request_data, input_text) ==
  RawConfidence(table, intent, request_data, input_text)

\* confidence = min(confidence, 1.0)
Confidence(table, intent, request_data, input_text) ==
  Min(RawConfidence(table, intent, request_data, input_text), ConfidenceCap)

\* _get_routing_info(intent, request_data)
GetRoutingInfo(table, intent, request_data) ==
  LET extracted == ExtractInputText(request_data)
      input_text == extracted.value
  IN IF extracted.status = "raise" THEN extracted
     ELSE Return(
       [target_agent |-> IF HasIntent(table, intent)
                         THEN Entry(table, intent).agent
                         ELSE "KnowledgeExplainer",
        confidence |-> Confidence(table, intent, request_data, input_text),
        routing_data |->
          [original_request |-> request_data,
           detected_language |-> DetectLanguage(input_text),
           processing_hints |-> GetProcessingHints(intent, request_data)]])

\* get_capabilities()
GetCapabilities(table) ==
  [name |-> "Orchestrator",
   description |-> "Intent detection and request routing agent",
   supported_operations |-> <<"intent_detection", "request_routing",
                              "language_detection", "confidence_scoring">>,
   supported_intents |-> [i \in 1..Len(table) |-> table[i].intent],
   input_types |-> <<"text", "multimodal">>,
   output_types |-> <<"routing_info">>]

\* The type key ignored.
ExplicitTypeIgnored(table, request_data) == FALSE

\* The type compared without regard to case.
ExplicitTypeFolded(table, request_data) ==
  /\ "type" \in DOMAIN request_data
  /\ Truthy(request_data["type"])
  /\ request_data["type"].kind = "str"
  /\ \E i \in 1..Len(table) :
       Codes(table[i].intent) = Lower(request_data["type"].text)

\* `explicit_type and explicit_type in self.intent_patterns`
ExplicitTypeValid(table, request_data) ==
  /\ "type" \in DOMAIN request_data
  /\ Truthy(request_data["type"])
  /\ request_data["type"].kind = "str"
  /\ \E i \in 1..Len(table) : Codes(table[i].intent) = request_data["type"].text

\* The intent with the type taken without regard to case.
ChooseIntentFolded(table, request_data, input_text) ==
  IF ExplicitTypeFolded(table, request_data)
  THEN [intent |-> (CHOOSE n \in {table[i].intent : i \in 1..Len(table)} :
                      Codes(n) = Lower(request_data["type"].text)),
        intent_scores |-> <<>>]
  ELSE DetectIntentRun(table, input_text)

\* The lines of process after the input text is known to be non-empty:
\* the intent (explicit or detected, with the scores of the detection,
\* none if it was skipped).
ChooseIntent(table, request_data, input_text) ==
  IF ExplicitTypeValid(table, request_data)
  THEN [intent |-> (CHOOSE n \in {table[i].intent : i \in 1..Len(table)} :
                      Codes(n) = request_data["type"].text),
        intent_scores |-> <<>>]
  ELSE DetectIntentRun(table, input_text)

\* The dict process returns.
\* The analysis taking every text for English.
DecisionEnglish(detected_intent, routing_info, request_data, input_text) ==
  [detected_intent |-> detected_intent,
   target_agent |-> routing_info.target_agent,
   confidence |-> routing_info.confidence,
   routing_data |-> routing_info.routing_data,
   input_analysis |->
     [input_length |-> Len(input_text),
      language |-> "en",
      contains_image |-> "image" \in DOMAIN request_data
                         \/ "file" \in DOMAIN request_data,
      contains_audio |-> "audio" \in DOMAIN request_data]]

Decision(detected_intent, routing_info, request_data, input_text) ==
  [detected_intent |-> detected_intent,
   target_agent |-> routing_info.target_agent,
   confidence |-> routing_info.confidence,
   routing_data |-> routing_info.routing_data,
   input_analysis |->
     [input_length |-> Len(input_text),
      language |-> DetectLanguage(input_text),
      contains_image |-> "image" \in DOMAIN request_data
                         \/ "file" \in DOMAIN request_data,
      contains_audio |-> "audio" \in DOMAIN request_data]]

\* The check left out.
InputMissingNever(input_text) == FALSE

\* if not input_text
InputMissing(input_text) == Len(input_text) = 0

\* The lines of process from the choice of the intent to the return.
Decide(table, request_data, input_text) ==
  Only({[outcome |->
           Return(Decision(chosen.intent,
                           GetRoutingInfo(table, chosen.intent, request_data).value,
                           request_data, input_text)),
         intent_scores |-> chosen.intent_scores] :
          chosen \in {ChooseIntent(table, request_data, input_text)}})

\* The type of the request looked at before the text: a registered type
\* is decided on whatever the text.
ProcessRunTypeFirst(table, request_data) ==
  Only({IF extracted.status = "raise"
        THEN [outcome |-> extracted, intent_scores |-> <<>>]
        ELSE IF ExplicitTypeValid(table, request_data)
        THEN Decide(table, request_data, extracted.value)
        ELSE IF InputMissing(extracted.value)
        THEN [outcome |-> Raise("ValueError"), intent_scores |-> <<>>]
        ELSE Decide(table, request_data, extracted.value) :
          extracted \in {ExtractInputText(request_data)}})

\* process(request_data): its outcome, with the intent_scores of the
\* _detect_intent run it made (none if it made none).
ProcessRun(table, request_data) ==
  Only({IF extracted.status = "raise"
        THEN [outcome |-> extracted, intent_scores |-> <<>>]
        ELSE IF InputMissing(extracted.value)
        THEN [outcome |-> Raise("ValueError"), intent_scores |-> <<>>]
        ELSE Decide(table, request_data, extracted.value) :
          extracted \in {ExtractInputText(request_data)}})

Process(table, request_data) == ProcessRun(table, request_data).outcome

(***************************************************************************)
(* The pipelines and BaseAgent.execute_with_monitoring.  A pipeline is     *)
(* named as its agent names itself.  The AI service answers a call with a  *)
(* text, with nothing (an empty text) or by raising.  What a pipeline      *)
(* hands back is kept as whether it reports a failure and which content it *)
(* carries: "generated" by the AI, a "fallback" built without it, "empty"  *)
(* or "none".                                                              *)
(***************************************************************************)

Pipelines ==
  {"ContentGenerator", "VisualAidAgent", "LessonPlannerAgent",
   "MaterialAdapterAgent", "AssessmentAgent"}

AiOutcomes == {"text", "nothing", "raises"}

\* The parameters process declares after self: (request_data, user_context)
\* in ContentGenerator and VisualAidAgent, (request) in the other three.
ProcessParameters(agent) ==
  IF agent \in {"ContentGenerator", "VisualAidAgent"} THEN 2 ELSE 1

\* request.get(key) is truthy
Given(request, key) == key \in DOMAIN request /\ Truthy(request[key])

Produced(content) == Return([failed |-> FALSE, content |-> content])
Failed == Return([failed |-> TRUE, content |-> "none"])

\* ContentGeneratorAgent.process: no topic raises; _generate_content takes
\* the mock content when the AI gives no text or raises.
ContentGeneratorProcess(request, ai) ==
  IF ~Given(request, "topic") THEN Raise("ValueError")
  ELSE Produced(IF ai = "text" THEN "generated" ELSE "fallback")

\* VisualAidAgent.process: a missing concept ends in the outer handler,
\* which returns a failure record; the diagram falls back to a default one.
VisualAidProcess(request, ai) ==
  IF ~Given(request, "concept") THEN Failed
  ELSE Produced(IF ai = "text" THEN "generated" ELSE "fallback")

\* LessonPlannerAgent.process: every field has a default and every step a
\* fallback.
LessonPlannerProcess(request, ai) ==
  Produced(IF ai = "raises" THEN "fallback" ELSE "generated")

\* MaterialAdapterAgent.process: _extract_content_from_image and
\* _generate_worksheet re-raise, and the outer handler returns a failure
\* record; an empty answer of the AI becomes an empty worksheet.
MaterialAdapterProcess(request, ai) ==
  IF ~Given(request, "image") \/ ai = "raises" THEN Failed
  ELSE Produced(IF ai = "text" THEN "generated" ELSE "empty")

\* AssessmentAgent.process: no audio fails; the feedback and the
\* improvement plan have fallbacks.
AssessmentProcess(request, ai) ==
  IF ~Given(request, "audio") THEN Failed
  ELSE Produced(IF ai = "raises" THEN "fallback" ELSE "generated")

\* agent.process(request), the body of the method
AgentProcess(agent, request, ai) ==
  CASE agent = "ContentGenerator" -> ContentGeneratorProcess(request, ai)
    [] agent = "VisualAidAgent" -> VisualAidProcess(request, ai)
    [] agent = "LessonPlannerAgent" -> LessonPlannerProcess(request, ai)
    [] agent = "MaterialAdapterAgent" -> MaterialAdapterProcess(request, ai)
    [] agent = "AssessmentAgent" -> AssessmentProcess(request, ai)

\* self.process(request_data, user_context): two arguments, which a method
\* declared with one parameter cannot take.
BoundProcess(agent, request, ai) ==
  IF ProcessParameters(agent) < 2 THEN Raise("TypeError")
  ELSE AgentProcess(agent, request, ai)

\* operation_type = request_data.get("type", "unknown")
OperationType(request) ==
  IF "type" \in DOMAIN request THEN request["type"]
  ELSE StrVal(Codes("unknown"))

\* The exception swallowed: the failure handed back as if process had
\* returned nothing.
MonitoredSwallowing(agent, request, result) ==
  [success |-> TRUE,
   agent |-> agent,
   data |-> IF result.status = "raise" THEN NoneVal ELSE result.value,
   metadata |-> [agent |-> agent, operation |-> OperationType(request)]]

\* The try statement of execute_with_monitoring around the call of
\* process: its result under "data" with success True, any exception as an
\* error response with success False.  The message of the error response
\* is str(e) of the exception whose type is kept here.
Monitored(agent, request, result) ==
  IF result.status = "raise"
  THEN [success |-> FALSE,
        agent |-> agent,
        error |-> result.error,
        metadata |-> [agent |-> agent, operation |-> OperationType(request)]]
  ELSE [success |-> TRUE,
        agent |-> agent,
        data |-> result.value,
        metadata |-> [agent |-> agent, operation |-> OperationType(request)]]

\* agent.execute_with_monitoring(request) of a pipeline
ExecuteWithMonitoring(agent, request, ai) ==
  Monitored(agent, request, BoundProcess(agent, request, ai))

\* orchestrator.execute_with_monitoring(request): process of the
\* orchestrator takes (request_data, user_context).
ExecuteOrchestrator(table, request) ==
  Monitored("Orchestrator", request, Process(table, request))

(***************************************************************************)
(* process_query, the handler of POST /api/v1/query (api/routes.py).  A    *)
(* QueryRequest is kept as the record of its fields after validation.  The *)
(* handler hands back the response with the agents whose                   *)
(* execute_with_monitoring it awaited, in order.                           *)
(***************************************************************************)

\* request.text or request.topic or ""
TextOrTopic(q) ==
  IF Truthy(q.text) THEN q.text
  ELSE IF Truthy(q.topic) THEN q.topic
  ELSE StrVal(<<>>)

\* **(request.additional_params or {})
ExtraParams(q) ==
  IF Truthy(q.additional_params) THEN q.additional_params.entries ELSE NoKeys

\* orchestrator_request: the fields of the request, then the additional
\* parameters, which replace a field of the same name.
OrchestratorRequest(q) ==
  [k \in {"type", "text", "content_type", "topic", "language", "grade_level",
          "context", "user_id"} \cup DOMAIN ExtraParams(q) |->
     IF k \in DOMAIN ExtraParams(q) THEN ExtraParams(q)[k]
     ELSE CASE k = "text" -> TextOrTopic(q)
            [] k = "context" ->
                 IF Truthy(q.context) THEN q.context ELSE DictVal(NoKeys)
            [] k = "user_id" -> StrVal(Codes("anonymous"))
            [] OTHER -> q[k]]

\* content_request
ContentRequest(q) ==
  [content_type |->
     IF Truthy(q.content_type) THEN q.content_type ELSE StrVal(Codes("story")),
   topic |-> q.topic,
   language |-> q.language,
   grade_level |-> q.grade_level,
   additional_details |->
     IF "additional_details" \in DOMAIN ExtraParams(q)
     THEN ExtraParams(q)["additional_details"]
     ELSE StrVal(<<>>)]

\* The decision of the orchestrator carried out: the pipeline it names is
\* run as well.
ProcessQueryForwarding(table, q, ai) ==
  IF q.type = StrVal(Codes("content_generation"))
  THEN [sent |-> <<"ContentGenerator">>,
        response |-> ExecuteWithMonitoring("ContentGenerator",
                                           ContentRequest(q), ai)]
  ELSE [sent |-> <<"Orchestrator", "ContentGenerator">>,
        response |-> ExecuteWithMonitoring("ContentGenerator",
                                           OrchestratorRequest(q), ai)]

\* process_query(request)
ProcessQuery(table, q, ai) ==
  IF q.type = StrVal(Codes("content_generation"))
  THEN [sent |-> <<"ContentGenerator">>,
        response |-> ExecuteWithMonitoring("ContentGenerator",
                                           ContentRequest(q), ai)]
  ELSE [sent |-> <<"Orchestrator">>,
        response |-> ExecuteOrchestrator(table, OrchestratorRequest(q))]

(***************************************************************************)
(* Inputs.  Texts are joined from the words of a small vocabulary chosen   *)
(* to hit the rules of the table; requests are built from them.            *)
(***************************************************************************)

\* The most words of a text, the most characters of a script text and the
\* most candidate text fields of a request.
MaxWords == 2
MaxChars == 2
MaxFields == 2

\* Words: one that matches nothing, keywords of one rule, literals that
\* complete a pattern, with and without capitals.
IntentWords ==
  {Codes(w) : w \in {"hello", "Story", "create", "worksheet", "grade", "Draw",
                      "schedule", "reading", "fluency", "doubt"}}

\* The texts of at most n words of W, joined by one space.
RECURSIVE TextsOf(_, _)
TextsOf(W, n) ==
  IF n = 0 THEN {<<>>}
  ELSE LET shorter == TextsOf(W, n - 1)
       IN shorter \cup {IF t = <<>> THEN w ELSE t \o <<32>> \o w :
                          t \in shorter, w \in W}

IntentTexts == TextsOf(IntentWords, MaxWords) \ {<<>>}

\* t followed by a space and a run of "z" that brings it to n characters.
PadTo(t, n) == t \o <<32>> \o [i \in 1..(n - Len(t) - 1) |-> 122]

\* One-word texts of exactly LongInput and LongInput + 1 characters.
LongTexts == {PadTo(w, n) : w \in IntentWords, n \in {LongInput, LongInput + 1}}

\* The first and last code point of each of the five blocks, a Malayalam
\* letter, a Latin letter, a digit and a punctuation mark.
ScriptChars ==
  {2304, 2431, 2432, 2559, 2688, 2815, 2944, 3071, 3200, 3327, 3333, 97, 50, 63}

ScriptTexts == UNION {[1..n -> ScriptChars] : n \in 0..MaxChars}

\* The values of the type key: each registered name, the empty string, a
\* registered name in other case, None and a number; NoType stands for a
\* request without the key.
NoType == [kind |-> "absent"]
TypeChoices ==
  {NoType, StrVal(<<>>), StrVal(Codes("Assessment")), NoneVal, IntVal(5)}
  \cup {StrVal(Codes(IntentPatternsInit[i].intent)) : i \in 1..Len(IntentPatternsInit)}

\* The media keys of a request (their values do not matter to the router).
MediaChoices == SUBSET {"image", "file", "audio"}

\* The request with the keys of f and, besides, the type ty and the media
\* keys of m.
Request(f, ty, m) ==
  [k \in DOMAIN f \cup m \cup (IF ty = NoType THEN {} ELSE {"type"}) |->
     IF k \in m THEN StrVal(Codes("base64"))
     ELSE IF k = "type" /\ ty # NoType THEN ty
     ELSE f[k]]

TextOnly(t) == [k \in {"text"} |-> StrVal(t)]

\* The texts of the scenarios of the routing contract.
ScenarioTexts ==
  {Codes("worksheet for grade 2"),
   Codes("Can you create a story about farming for grade 3?")}

\* The texts sent with media: the one-word texts, the long ones and the
\* scenarios.
MediaTexts == (TextsOf(IntentWords, 1) \ {<<>>}) \cup LongTexts \cup ScenarioTexts

\* Requests with one text and any type: every text without media, the
\* texts of MediaTexts with any media.
RoutingRequests ==
  {Request(TextOnly(t), ty, {}) : t \in IntentTexts, ty \in TypeChoices}
  \cup {Request(TextOnly(t), ty, m) :
          t \in MediaTexts, ty \in TypeChoices, m \in MediaChoices}

\* Requests whose text is a run of characters of several scripts.
ScriptRequests == {TextOnly(t) : t \in ScriptTexts}

\* What a candidate field named f may hold: empty, whitespace, its own
\* name between spaces, and values that are no strings.
FieldValues(f) ==
  {StrVal(<<>>), StrVal(<<32, 32>>), StrVal(<<32>> \o Codes(f) \o <<32>>),
   IntVal(0), IntVal(7)}

CandidateNames == {TextFields[i] : i \in 1..Len(TextFields)}

\* The dicts with exactly n candidate fields.
FieldDicts(n) ==
  UNION {{d \in [names -> UNION {FieldValues(f) : f \in names}] :
            \A f \in names : d[f] \in FieldValues(f)} :
         names \in {ns \in SUBSET CandidateNames : Cardinality(ns) = n}}

\* A data entry that is no dict.
MalformedData ==
  {NoneVal, IntVal(3), StrVal(Codes("abc")), StrVal(Codes("my text")),
   ListVal(<<"text">>), ListVal(<<"other">>)}

\* The data entries with at most n candidate fields; NoData stands for a
\* request without the key.
NoData == [kind |-> "absent"]
DataChoices(n) ==
  {NoData} \cup MalformedData \cup {DictVal(d) : d \in UNION {FieldDicts(k) : k \in 0..n}}

\* The request with the keys of top and the data entry.
WithData(top, data) ==
  [k \in DOMAIN top \cup (IF data = NoData THEN {} ELSE {"data"}) |->
     IF k = "data" /\ data # NoData THEN data ELSE top[k]]

\* The request r with the keys of m added, each holding v.
WithMedia(r, m, v) == [k \in DOMAIN r \cup m |-> IF k \in m THEN v ELSE r[k]]

\* Requests whose media keys hold no payload (None, the empty string), and
\* requests that carry the media keys under data instead of the top level.
HollowMediaRequests ==
  {WithMedia(Request(TextOnly(t), ty, {}), m, v) :
     t \in ScenarioTexts,
     ty \in {NoType, StrVal(Codes("material_adaptation")),
             StrVal(Codes("assessment"))},
     m \in MediaChoices \ {{}},
     v \in {NoneVal, StrVal(<<>>)}}
  \cup {WithData(Request(TextOnly(t), ty, {}),
                 DictVal(WithMedia(NoKeys, m, StrVal(Codes("base64"))))) :
          t \in ScenarioTexts,
          ty \in {NoType, StrVal(Codes("material_adaptation")),
                  StrVal(Codes("assessment"))},
          m \in MediaChoices \ {{}}}

\* Requests of any type without a text: no text field, an empty one, one
\* of whitespace.
TextlessRequests ==
  {Request(f, ty, m) :
     f \in {NoKeys, TextOnly(<<>>), TextOnly(<<32, 32>>)},
     ty \in TypeChoices,
     m \in {{}, {"image"}}}

\* Requests with k candidate fields at the top level and at most MaxFields
\* in all, the others under data.
IsExtractionRequest(r) ==
  \E k \in 0..MaxFields :
    \E top \in FieldDicts(k), data \in DataChoices(MaxFields - k) :
      r = WithData(top, data)

\* The intents _get_routing_info and _get_processing_hints are called on
\* directly: the registered names and one that is not registered.
HelperIntents ==
  {IntentPatternsInit[i].intent : i \in 1..Len(IntentPatternsInit)}
  \cup {"translation"}

\* The requests _get_routing_info is called on directly.
HelperRequests ==
  {Request(TextOnly(t), NoType, m) : t \in MediaTexts, m \in MediaChoices}
  \cup {NoKeys, WithData(NoKeys, NoneVal)}

\* The requests the pipelines are run on: any of the fields the pipelines
\* require, each with a value.
PipelineFields == {"type", "topic", "concept", "subject", "image", "audio"}

PipelineRequests ==
  {[k \in K |-> StrVal(Codes("fractions"))] : K \in SUBSET PipelineFields}

\* A text in which two patterns of one rule match and a keyword of the rule
\* occurs twice.
RepeatedTexts == {Codes("create story story")}

\* The requests of POST /api/v1/query: a type (registered or not, in
\* another case, empty), a text and a topic or none, and additional
\* parameters that add or replace fields of the request to the orchestrator.
QueryTypes ==
  {StrVal(Codes(w)) : w \in {"content_generation", "Content_Generation",
                             "visual_aid", "question_answering",
                             "translation", ""}}

QueryParams ==
  {NoneVal, DictVal(NoKeys),
   DictVal([k \in {"type"} |-> StrVal(Codes("content_generation"))]),
   DictVal([k \in {"query"} |-> StrVal(Codes("create Story"))]),
   DictVal([k \in {"data"} |-> NoneVal])}

QueryRequests ==
  {[type |-> ty, text |-> tx, topic |-> tp, additional_params |-> ap,
    content_type |-> NoneVal, language |-> StrVal(Codes("en")),
    grade_level |-> NoneVal, context |-> NoneVal] :
     ty \in QueryTypes,
     tx \in {NoneVal, StrVal(Codes("hello")), StrVal(Codes("Draw schedule"))},
     tp \in {NoneVal, StrVal(Codes("fractions"))},
     ap \in QueryParams}

\* Texts with three keywords of a rule of seven and no pattern of it.
CoverageTexts == {Codes("story lesson content"), Codes("what how why")}

\* The texts the helpers are called on directly.
HelperTexts ==
  IntentTexts \cup LongTexts \cup ScriptTexts \cup ScenarioTexts
  \cup RepeatedTexts \cup CoverageTexts

(***************************************************************************)
(* The state: the rule table of the one OrchestratorAgent of the process,  *)
(* the request at hand, the last call made (with its argument when that is *)
(* a text, an intent or a pipeline with the answer of the AI), its         *)
(* outcome, and the intent_scores of the _detect_intent run the call made. *)
(***************************************************************************)

VARIABLES intent_patterns, request_data, call, arg, outcome, intent_scores

\* Concurrent calls of process on the one agent: the position of each call
\* in the method, its request, its result, and the frames that hold the
\* local variables of the calls.
VARIABLES pc, requests, results, frames

sequential == <<request_data, call, arg, outcome, intent_scores>>
concurrent == <<pc, requests, results, frames>>
vars == <<intent_patterns, sequential, concurrent>>

\* The requests the orchestrator is run on under execute_with_monitoring:
\* requests without a text, requests with media keys that hold nothing or
\* lie under data, and one request of each kind process tells apart.
MonitoredRequests ==
  TextlessRequests \cup HollowMediaRequests
  \cup {TextOnly(Codes("create Story")),
        TextOnly(<<32, 32>>),
        Request(TextOnly(Codes("worksheet for grade 2")), NoType, {"image"}),
        Request(TextOnly(Codes("hello")), StrVal(Codes("assessment")), {"audio"}),
        WithData(NoKeys, NoneVal)}

\* The agent is constructed and a request is at hand.
Init ==
  /\ intent_patterns = IntentPatternsInit
  /\ \/ request_data \in RoutingRequests
     \/ request_data \in ScriptRequests
     \/ request_data \in HollowMediaRequests
     \/ request_data \in TextlessRequests
     \/ IsExtractionRequest(request_data)
  /\ call = "none"
  /\ arg = <<>>
  /\ outcome = Return(NoneVal)
  /\ intent_scores = <<>>
  /\ pc = <<>>
  /\ requests = <<>>
  /\ results = <<>>
  /\ frames = <<>>

\* await orchestrator.process(request_data)
CallProcess ==
  /\ call = "none"
  /\ call' = "process"
  /\ \E run \in {ProcessRun(intent_patterns, request_data)} :
       /\ outcome' = run.outcome
       /\ intent_scores' = run.intent_scores
  /\ intent_patterns' = RuleTableAfter(intent_patterns)
  /\ UNCHANGED <<request_data, arg, concurrent>>

\* orchestrator._extract_input_text(request_data)
CallExtractInputText ==
  /\ call = "none"
  /\ call' = "_extract_input_text"
  /\ outcome' = ExtractInputText(request_data)
  /\ intent_patterns' = RuleTableAfter(intent_patterns)
  /\ UNCHANGED <<request_data, arg, intent_scores, concurrent>>

\* orchestrator._detect_intent(t), outside any request
CallDetectIntent ==
  /\ call = "none"
  /\ request_data = NoKeys
  /\ \E t \in HelperTexts :
       /\ arg' = t
       /\ \E run \in {DetectIntentRun(intent_patterns, t)} :
            /\ outcome' = Return(run.intent)
            /\ intent_scores' = run.intent_scores
  /\ call' = "_detect_intent"
  /\ intent_patterns' = RuleTableAfter(intent_patterns)
  /\ UNCHANGED <<request_data, concurrent>>

\* orchestrator._detect_language(t), outside any request
CallDetectLanguage ==
  /\ call = "none"
  /\ request_data = NoKeys
  /\ \E t \in HelperTexts :
       /\ arg' = t
       /\ outcome' = Return(DetectLanguage(t))
  /\ call' = "_detect_language"
  /\ intent_patterns' = RuleTableAfter(intent_patterns)
  /\ UNCHANGED <<request_data, intent_scores, concurrent>>

\* orchestrator._get_routing_info(intent, r), outside any request
CallGetRoutingInfo ==
  /\ call = "none"
  /\ request_data = NoKeys
  /\ \E intent \in HelperIntents, r \in HelperRequests :
       /\ arg' = intent
       /\ request_data' = r
       /\ outcome' = GetRoutingInfo(intent_patterns, intent, r)
  /\ call' = "_get_routing_info"
  /\ intent_patterns' = RuleTableAfter(intent_patterns)
  /\ UNCHANGED <<intent_scores, concurrent>>

\* orchestrator._get_processing_hints(intent, r), outside any request
CallGetProcessingHints ==
  /\ call = "none"
  /\ request_data = NoKeys
  /\ \E intent \in HelperIntents, r \in HelperRequests :
       /\ arg' = intent
       /\ request_data' = r
       /\ outcome' = Return(GetProcessingHints(intent, r))
  /\ call' = "_get_processing_hints"
  /\ intent_patterns' = RuleTableAfter(intent_patterns)
  /\ UNCHANGED <<intent_scores, concurrent>>

\* orchestrator.get_capabilities()
CallGetCapabilities ==
  /\ call = "none"
  /\ request_data = NoKeys
  /\ call' = "get_capabilities"
  /\ outcome' = Return(GetCapabilities(intent_patterns))
  /\ intent_patterns' = RuleTableAfter(intent_patterns)
  /\ UNCHANGED <<request_data, arg, intent_scores, concurrent>>

\* await agent.execute_with_monitoring(r), with the AI answering as ai
CallExecuteWithMonitoring ==
  /\ call = "none"
  /\ request_data = NoKeys
  /\ \E agent \in Pipelines, r \in PipelineRequests, ai \in AiOutcomes :
       /\ arg' = <<agent, ai>>
       /\ request_data' = r
       /\ outcome' = Return(ExecuteWithMonitoring(agent, r, ai))
  /\ call' = "execute_with_monitoring"
  /\ intent_patterns' = RuleTableAfter(intent_patterns)
  /\ UNCHANGED <<intent_scores, concurrent>>

\* await orchestrator.execute_with_monitoring(request_data)
CallExecuteOrchestrator ==
  /\ call = "none"
  /\ request_data \in MonitoredRequests
  /\ call' = "orchestrator.execute_with_monitoring"
  /\ \E run \in {ProcessRun(intent_patterns, request_data)} :
       /\ outcome' = Return(Monitored("Orchestrator", request_data, run.outcome))
       /\ intent_scores' = run.intent_scores
  /\ intent_patterns' = RuleTableAfter(intent_patterns)
  /\ UNCHANGED <<request_data, arg, concurrent>>

\* POST /api/v1/query with the request q, the AI answering as ai
CallProcessQuery ==
  /\ call = "none"
  /\ request_data = NoKeys
  /\ \E q \in QueryRequests, ai \in AiOutcomes :
       /\ arg' = <<ai>>
       /\ request_data' = q
       /\ outcome' = Return(ProcessQuery(intent_patterns, q, ai))
  /\ call' = "process_query"
  /\ intent_patterns' = RuleTableAfter(intent_patterns)
  /\ UNCHANGED <<intent_scores, concurrent>>

Next ==
  \/ CallProcess
  \/ CallExtractInputText
  \/ CallDetectIntent
  \/ CallDetectLanguage
  \/ CallGetRoutingInfo
  \/ CallGetProcessingHints
  \/ CallGetCapabilities
  \/ CallExecuteWithMonitoring
  \/ CallExecuteOrchestrator
  \/ CallProcessQuery

Spec == Init /\ [][Next]_vars

\* The same calls on an agent whose rule table holds no rule
\* (agent.intent_patterns = {}).
InitEmptyTable ==
  /\ intent_patterns = <<>>
  /\ \/ request_data \in RoutingRequests
     \/ request_data \in ScriptRequests
     \/ request_data \in HollowMediaRequests
     \/ request_data \in TextlessRequests
     \/ IsExtractionRequest(request_data)
  /\ call = "none"
  /\ arg = <<>>
  /\ outcome = Return(NoneVal)
  /\ intent_scores = <<>>
  /\ pc = <<>>
  /\ requests = <<>>
  /\ results = <<>>
  /\ frames = <<>>

SpecEmptyTable == InitEmptyTable /\ [][Next]_vars

(***************************************************************************)
(* Concurrent calls.  The Flask front end serves every request in a thread *)
(* of its own, so calls of process on the shared agent interleave between  *)
(* any two statements.  A call keeps input_text, detected_intent and       *)
(* routing_info in local variables, that is, in a frame of its own; the    *)
(* agent holds the rule table only.                                        *)
(***************************************************************************)

\* The most calls in flight.
MaxCalls == 2

Calls == 1..MaxCalls

\* The locals of every call kept in one place, as attributes of the agent
\* would be.
FrameOnAgent(c) == 1

\* The frame that holds the local variables of call c: its own.
FrameOf(c) == c

\* The local variables of a call before it has assigned them.
NoLocals ==
  [input_text |-> <<>>, detected_intent |-> "", routing_info |-> NoneVal]

\* The requests of the concurrent calls: texts of different intents, a
\* registered type, media, a whitespace text and a data entry of None.
ConcurrentRequests ==
  {TextOnly(Codes("create Story")),
   TextOnly(Codes("Draw schedule")),
   TextOnly(<<32, 32>>),
   Request(TextOnly(Codes("worksheet for grade 2")), NoType, {"image"}),
   Request(TextOnly(Codes("hello")), StrVal(Codes("assessment")), {"audio"}),
   WithData(NoKeys, NoneVal)}

\* The agent is constructed and every call has its request.
InitConcurrent ==
  /\ intent_patterns = IntentPatternsInit
  /\ request_data = NoKeys
  /\ call = "none"
  /\ arg = <<>>
  /\ outcome = Return(NoneVal)
  /\ intent_scores = <<>>
  /\ pc = [c \in Calls |-> "extract"]
  /\ requests \in [Calls -> ConcurrentRequests]
  /\ results = [c \in Calls |-> Return(NoneVal)]
  /\ frames = [c \in Calls |-> NoLocals]

\* Call c assigns the local variable named name.
Assign(c, name, value) ==
  frames' = [frames EXCEPT ![FrameOf(c)] = [@ EXCEPT ![name] = value]]

\* Call c ends with the result r.
Finish(c, r) ==
  /\ pc' = [pc EXCEPT ![c] = "done"]
  /\ results' = [results EXCEPT ![c] = r]

\* input_text = self._extract_input_text(request_data)
StepExtract(c) ==
  /\ pc[c] = "extract"
  /\ \E extracted \in {ExtractInputText(requests[c])} :
       IF extracted.status = "raise"
       THEN Finish(c, extracted) /\ UNCHANGED frames
       ELSE /\ Assign(c, "input_text", extracted.value)
            /\ pc' = [pc EXCEPT ![c] = "check"]
            /\ UNCHANGED results
  /\ UNCHANGED <<intent_patterns, sequential, requests>>

\* if not input_text: raise ValueError("No input text found ...")
StepCheck(c) ==
  /\ pc[c] = "check"
  /\ IF InputMissing(frames[FrameOf(c)].input_text)
     THEN Finish(c, Raise("ValueError"))
     ELSE pc' = [pc EXCEPT ![c] = "intent"] /\ UNCHANGED results
  /\ UNCHANGED <<intent_patterns, sequential, requests, frames>>

\* detected_intent = explicit_type or self._detect_intent(input_text)
StepIntent(c) ==
  /\ pc[c] = "intent"
  /\ Assign(c, "detected_intent",
            ChooseIntent(intent_patterns, requests[c],
                         frames[FrameOf(c)].input_text).intent)
  /\ pc' = [pc EXCEPT ![c] = "routing"]
  /\ UNCHANGED <<intent_patterns, sequential, requests, results>>

\* routing_info = self._get_routing_info(detected_intent, request_data)
StepRouting(c) ==
  /\ pc[c] = "routing"
  /\ Assign(c, "routing_info",
            GetRoutingInfo(intent_patterns, frames[FrameOf(c)].detected_intent,
                           requests[c]).value)
  /\ pc' = [pc EXCEPT ![c] = "return"]
  /\ UNCHANGED <<intent_patterns, sequential, requests, results>>

\* return {...}
StepReturn(c) ==
  /\ pc[c] = "return"
  /\ Finish(c, Return(Decision(frames[FrameOf(c)].detected_intent,
                               frames[FrameOf(c)].routing_info,
                               requests[c],
                               frames[FrameOf(c)].input_text)))
  /\ UNCHANGED <<intent_patterns, sequential, requests, frames>>

NextConcurrent ==
  \E c \in Calls :
    \/ StepExtract(c)
    \/ StepCheck(c)
    \/ StepIntent(c)
    \/ StepRouting(c)
    \/ StepReturn(c)

SpecConcurrent == InitConcurrent /\ [][NextConcurrent]_vars

(***************************************************************************)
(* Properties                                                              *)
(***************************************************************************)

\* The six intent names in the canonical order of the rule table.
CanonicalOrder ==
  <<"content_generation", "question_answering", "material_adaptation",
    "visual_aid", "assessment", "lesson_planning">>

RegisteredNames == {CanonicalOrder[i] : i \in 1..Len(CanonicalOrder)}

\* process returned a decision.
Decided == call = "process" /\ outcome.status = "return"

\* The request has a type key that holds a registered intent name.
HasRegisteredType ==
  /\ "type" \in DOMAIN request_data
  /\ request_data["type"].kind = "str"
  /\ \E n \in RegisteredNames : Codes(n) = request_data["type"].text

\* The extraction finds a non-empty text in the request.
TextFound ==
  /\ ExtractInputText(request_data).status = "return"
  /\ ExtractInputText(request_data).value # <<>>

\* The largest score of the last _detect_intent run, and the rules that
\* reach it.
BestScore ==
  CHOOSE b \in {intent_scores[i].score : i \in 1..Len(intent_scores)} :
    \A i \in 1..Len(intent_scores) : intent_scores[i].score <= b

Tied == {i \in 1..Len(intent_scores) : intent_scores[i].score = BestScore}

\* Rule i matched a pattern or a keyword, and no other rule matched anything.
RuleMatched(i) ==
  intent_scores[i].pattern_hit \/ intent_scores[i].keyword_matches > 0

OnlyRule(i) ==
  /\ RuleMatched(i)
  /\ \A j \in 1..Len(intent_scores) : j # i => ~RuleMatched(j)

\* C1: every decision of process has a confidence in [0, 1].
C1_ConfidenceInRange ==
  Decided => outcome.value.confidence >= 0 /\ outcome.value.confidence <= 100

\* A long material_adaptation request with an image: 0.8 + 0.1 + 0.15.
C1_Witness ==
  /\ Decided
  /\ outcome.value.detected_intent = "material_adaptation"
  /\ outcome.value.input_analysis.input_length > 50
  /\ "image" \in DOMAIN request_data
  /\ outcome.value.confidence = 100

\* C2: a decision of the fallback path (no registered type, every score
\* below 0.5) is question_answering with confidence 0.3 for a text of at
\* most 50 characters.
C2_FallbackConfidence ==
  (/\ Decided
   /\ ~HasRegisteredType
   /\ \A i \in 1..Len(intent_scores) : intent_scores[i].score < 42)
  => /\ outcome.value.detected_intent = "question_answering"
     /\ outcome.value.input_analysis.input_length <= 50
          => outcome.value.confidence = 30

C4_TieBreak ==
  (call = "_detect_intent" /\ Cardinality(Tied) >= 2 /\ BestScore >= 42)
  => /\ \E i \in Tied :
          /\ outcome.value = CanonicalOrder[i]
          /\ \A j \in Tied : i <= j
     /\ \A i \in Tied : intent_scores[i].intent = CanonicalOrder[i]
     /\ outcome.value = DetectIntent(intent_patterns, arg)

\* visual_aid and lesson_planning tie above the floor; visual_aid is first.
C4_Witness ==
  /\ call = "_detect_intent"
  /\ Tied = {4, 6}
  /\ BestScore >= 42
  /\ outcome.value = "visual_aid"

\* C5: with a registered type and a non-empty text, the decision carries
\* the type as detected_intent and no scoring takes place.
C5_ExplicitOverride ==
  (call = "process" /\ HasRegisteredType /\ TextFound)
  => /\ outcome.status = "return"
     /\ Codes(outcome.value.detected_intent) = request_data["type"].text
     /\ intent_scores = <<>>

\* type assessment on a text that scoring gives to content_generation.
C5_Witness ==
  /\ Decided
  /\ HasRegisteredType
  /\ request_data["type"].text = Codes("assessment")
  /\ outcome.value.detected_intent = "assessment"
  /\ DetectIntent(intent_patterns, ExtractInputText(request_data).value)
       = "content_generation"

\* The request without its type key.
WithoutType(r) == [k \in DOMAIN r \ {"type"} |-> r[k]]

\* Two outcomes of process agree: the same exception, or decisions equal
\* in every field but the echo of the request.
SameOutcome(a, b) ==
  /\ a.status = b.status
  /\ a.status = "raise" => a = b
  /\ a.status = "return"
       => /\ a.value.detected_intent = b.value.detected_intent
          /\ a.value.target_agent = b.value.target_agent
          /\ a.value.confidence = b.value.confidence
          /\ a.value.input_analysis = b.value.input_analysis
          /\ a.value.routing_data.detected_language
               = b.value.routing_data.detected_language
          /\ a.value.routing_data.processing_hints
               = b.value.routing_data.processing_hints

CandidateValues(r) ==
  LET top == SelectSeq(TextFields, LAMBDA f : f \in DOMAIN r)
      nested == IF "data" \in DOMAIN r /\ r["data"].kind = "dict"
                THEN SelectSeq(TextFields, LAMBDA f : f \in DOMAIN r["data"].entries)
                ELSE <<>>
  IN [i \in 1..Len(top) |-> r[top[i]]]
     \o [i \in 1..Len(nested) |-> r["data"].entries[nested[i]]]

\* The request holds strings only, and its data entry, if any, is a dict.
WellFormed(r) ==
  /\ "data" \in DOMAIN r => r["data"].kind = "dict"
  /\ \A i \in 1..Len(CandidateValues(r)) : CandidateValues(r)[i].kind = "str"

\* The first candidate that is non-empty after trimming, trimmed; the
\* empty string if there is none.
FirstNonEmptyTrimmed(r) ==
  LET vals == CandidateValues(r)
      full == {i \in 1..Len(vals) : Strip(vals[i].text) # <<>>}
  IN IF full = {} THEN <<>>
     ELSE Strip(vals[CHOOSE i \in full : \A j \in full : i <= j].text)

\* C8: _extract_input_text returns the first candidate that is non-empty
\* after trimming, and the empty string only if there is none.
C8_FirstNonEmptyCandidate ==
  (call = "_extract_input_text" /\ WellFormed(request_data))
  => outcome = Return(FirstNonEmptyTrimmed(request_data))

\* C9: _extract_input_text returns a string for every request record and
\* never raises.
C9_ExtractTotal ==
  call = "_extract_input_text" => outcome.status = "return"

\* A code point of one of the five Indic blocks of _detect_language.
InIndicBlock(c) ==
  \/ c >= 2304 /\ c <= 2431
  \/ c >= 2432 /\ c <= 2559
  \/ c >= 2688 /\ c <= 2815
  \/ c >= 2944 /\ c <= 3071
  \/ c >= 3200 /\ c <= 3327

\* C10: _detect_language returns one of the six codes for every string,
\* and en exactly when no character is in one of the five Indic blocks.
C10_LanguageTotal ==
  call = "_detect_language"
  => /\ outcome.status = "return"
     /\ outcome.value \in {"hi", "ta", "bn", "gu", "kn", "en"}
     /\ outcome.value = "en" <=> ~\E i \in 1..Len(arg) : InIndicBlock(arg[i])

\* A Malayalam letter alone is given the English code.
C10_Witness ==
  /\ call = "_detect_language"
  /\ arg = <<3333>>
  /\ outcome = Return("en")

\* The scripts in the priority order of the claim, each with its block.
ScriptPriority ==
  <<[code |-> "hi", lo |-> 2304, hi |-> 2431],
    [code |-> "ta", lo |-> 2944, hi |-> 3071],
    [code |-> "bn", lo |-> 2432, hi |-> 2559],
    [code |-> "gu", lo |-> 2688, hi |-> 2815],
    [code |-> "kn", lo |-> 3200, hi |-> 3327]>>

\* The scripts (positions of ScriptPriority) that have a character in t.
ScriptsIn(t) ==
  {s \in 1..Len(ScriptPriority) :
     \E i \in 1..Len(t) :
       t[i] >= ScriptPriority[s].lo /\ t[i] <= ScriptPriority[s].hi}

\* C11: on a text with characters of one or more of the five scripts,
\* _detect_language returns the code of the script that comes first in the
\* order hi, ta, bn, gu, kn among those present, wherever its characters
\* stand and however many they are.
C11_FirstScriptInPriority ==
  (call = "_detect_language" /\ ScriptsIn(arg) # {})
  => \E s \in ScriptsIn(arg) :
       /\ \A o \in ScriptsIn(arg) : s <= o
       /\ outcome = Return(ScriptPriority[s].code)

\* A Tamil character followed by a Devanagari one: hi, the later character.
C11_Witness ==
  /\ call = "_detect_language"
  /\ arg = <<2944, 2304>>
  /\ outcome = Return("hi")

\* The pipeline of each intent, as the routing contract lists them.
PipelineOf ==
  [content_generation |-> "ContentGenerator",
   question_answering |-> "KnowledgeExplainer",
   material_adaptation |-> "MaterialAdapter",
   visual_aid |-> "VisualAid",
   assessment |-> "Assessment",
   lesson_planning |-> "LessonPlanner"]

\* C12: in every decision of process, detected_intent is one of the six
\* registered names and target_agent is the pipeline listed for it.
C12_IntentAndPipeline ==
  Decided
  => /\ outcome.value.detected_intent \in RegisteredNames
     /\ outcome.value.target_agent = PipelineOf[outcome.value.detected_intent]

\* A text that scoring gives to lesson_planning goes to LessonPlanner.
C12_Witness ==
  /\ Decided
  /\ "type" \notin DOMAIN request_data
  /\ outcome.value.detected_intent = "lesson_planning"
  /\ outcome.value.target_agent = "LessonPlanner"

\* The last _detect_intent run found no pattern of any rule, exactly n
\* keywords of rule i and no keyword of any other rule.
KeywordsOnlyOf(i, n) ==
  /\ Len(intent_scores) = Len(CanonicalOrder)
  /\ \A j \in 1..Len(intent_scores) :
       /\ ~intent_scores[j].pattern_hit
       /\ intent_scores[j].keyword_matches = (IF j = i THEN n ELSE 0)

\* C13: a text with no pattern, two keywords of material_adaptation and
\* nothing else scores exactly 0.5 and is decided material_adaptation; with
\* an image key the confidence is 0.95 for at most 50 characters, and it
\* never exceeds 1.0.
C13_TwoKeywordsReachFloor ==
  (Decided /\ ~HasRegisteredType /\ KeywordsOnlyOf(3, 2))
  => /\ intent_scores[3].score = 42
     /\ outcome.value.detected_intent = "material_adaptation"
     /\ outcome.value.confidence <= 100
     /\ ("image" \in DOMAIN request_data
         /\ outcome.value.input_analysis.input_length <= 50)
        => outcome.value.confidence = 95

\* The scenario: "worksheet for grade 2" with an image.
C13_Witness ==
  /\ Decided
  /\ request_data["text"] = StrVal(Codes("worksheet for grade 2"))
  /\ "image" \in DOMAIN request_data
  /\ KeywordsOnlyOf(3, 2)
  /\ outcome.value.detected_intent = "material_adaptation"
  /\ outcome.value.confidence = 95

\* Rule i is the only rule a pattern of which matched in the last run.
OnlyPattern(i) ==
  /\ intent_scores[i].pattern_hit
  /\ \A j \in 1..Len(intent_scores) : j # i => ~intent_scores[j].pattern_hit

\* C14: when exactly one rule has a matching pattern it scores at least
\* 2.0, every other rule at most 1.5, and the decision carries its intent
\* and pipeline with confidence at least 0.8, whatever keywords of other
\* rules the text holds.
C14_OnlyPatternWins ==
  (Decided /\ ~HasRegisteredType)
  => \A i \in 1..Len(intent_scores) :
       OnlyPattern(i)
       => /\ intent_scores[i].score >= 168
          /\ \A j \in 1..Len(intent_scores) :
               j # i => intent_scores[j].score <= 126
          /\ outcome.value.detected_intent = CanonicalOrder[i]
          /\ outcome.value.target_agent = PipelineOf[CanonicalOrder[i]]
          /\ outcome.value.confidence >= 80

\* The scenario: a pattern of content_generation and a keyword of
\* material_adaptation.
C14_Witness ==
  /\ Decided
  /\ request_data =
       TextOnly(Codes("Can you create a story about farming for grade 3?"))
  /\ OnlyPattern(1)
  /\ intent_scores[3].keyword_matches > 0
  /\ outcome.value.detected_intent = "content_generation"
  /\ outcome.value.target_agent = "ContentGenerator"
  /\ outcome.value.confidence = 80

\* C15: whatever the interleaving, a call of process that has ended has
\* the outcome it has when run alone on its request, and the rule table is
\* the one built at construction.
C15_CallsIndependent ==
  /\ intent_patterns = IntentPatternsInit
  /\ \A c \in DOMAIN pc :
       pc[c] = "done" => results[c] = Process(IntentPatternsInit, requests[c])

\* Two calls on different requests have both ended.
C15_Witness ==
  /\ DOMAIN pc = Calls
  /\ pc[1] = "done" /\ pc[2] = "done"
  /\ requests[1] = TextOnly(Codes("create Story"))
  /\ requests[2] = TextOnly(Codes("Draw schedule"))
  /\ results[1].value.detected_intent = "content_generation"
  /\ results[2].value.detected_intent = "visual_aid"

\* C16: after every call made on the agent, ended by a return or by an
\* exception, the rule table is the one built at construction: the six
\* intents in the canonical order, pairwise distinct.
C16_RuleTableUnchanged ==
  /\ intent_patterns = IntentPatternsInit
  /\ Len(intent_patterns) = Len(CanonicalOrder)
  /\ \A i \in 1..Len(intent_patterns) :
       intent_patterns[i].intent = CanonicalOrder[i]
  /\ \A i, j \in 1..Len(intent_patterns) :
       intent_patterns[i].intent = intent_patterns[j].intent => i = j

\* A call of _get_routing_info that failed in the extraction.
C16_Witness ==
  /\ call = "_get_routing_info"
  /\ outcome = Raise("TypeError")
  /\ intent_patterns = IntentPatternsInit

\* The request carries what the pipeline cannot work without.
WellFormedFor(agent, request) ==
  CASE agent = "ContentGenerator" -> Given(request, "topic")
    [] agent = "VisualAidAgent" -> Given(request, "concept")
    [] agent = "LessonPlannerAgent" -> TRUE
    [] agent = "MaterialAdapterAgent" -> Given(request, "image")
    [] agent = "AssessmentAgent" -> Given(request, "audio")

\* C17: every pipeline, run through execute_with_monitoring on a
\* well-formed request, returns a result that reports no failure and
\* carries content, whether the AI answers, answers nothing or raises.
C17_PipelinesNeverFail ==
  (call = "execute_with_monitoring" /\ WellFormedFor(arg[1], request_data))
  => /\ outcome.value.success
     /\ ~outcome.value.data.failed
     /\ outcome.value.data.content \in {"generated", "fallback"}

\* The intent the last _detect_intent run returned: the outcome of a direct
\* call, the detected_intent of a decision made without a registered type.
Detected ==
  IF call = "_detect_intent" THEN outcome.value
  ELSE outcome.value.detected_intent

\* C18: when the highest score is below 0.5, _detect_intent returns
\* question_answering whichever rule scored highest; when it is 0.5 or
\* more, 0.5 included, it returns a rule with the highest score.
C18_StrictFloor ==
  (call = "_detect_intent" \/ (Decided /\ ~HasRegisteredType))
  => /\ BestScore < ScoreFloor => Detected = "question_answering"
     /\ BestScore >= ScoreFloor
        => \E i \in Tied : Detected = intent_scores[i].intent

\* A highest score of exactly 0.5, held by material_adaptation alone, which
\* is returned.
C18_Witness ==
  /\ call = "_detect_intent"
  /\ BestScore = ScoreFloor
  /\ Tied = {3}
  /\ outcome = Return("material_adaptation")

\* The patterns of rule i that match the text of the last direct
\* _detect_intent call, and the keywords of the rule present in the
\* lowercased text.
MatchingPatterns(i) ==
  {p \in 1..Len(intent_patterns[i].patterns) :
     ReSearch(intent_patterns[i].patterns[p], Lower(arg))}

PresentKeywords(i) ==
  {intent_patterns[i].keywords[k] : k \in
     {k \in 1..Len(intent_patterns[i].keywords) :
        Contains(Lower(arg), intent_patterns[i].keywords[k])}}

\* C19: the score of every rule is 2.0 if a pattern of the rule matches
\* plus 1.5 times the share of its keywords present in the lowercased text,
\* and lies in [0, 3.5].
C19_ScoreFormula ==
  call = "_detect_intent"
  => \A i \in 1..Len(intent_patterns) :
       /\ intent_scores[i].score
            = (IF MatchingPatterns(i) # {} THEN PatternScore ELSE 0)
              + (KeywordWeight * Cardinality(PresentKeywords(i)))
                \div Len(intent_patterns[i].keywords)
       /\ intent_scores[i].score >= 0
       /\ intent_scores[i].score <= PatternScore + KeywordWeight

\* Two patterns of content_generation match and its keyword "story" occurs
\* twice: the score is 2.0 + 1.5 * 2/7.
C19_Witness ==
  /\ call = "_detect_intent"
  /\ arg = Codes("create story story")
  /\ Cardinality(MatchingPatterns(1)) = 2
  /\ PresentKeywords(1) = {Codes("story"), Codes("create")}
  /\ intent_scores[1].score = PatternScore + 36

\* The intent of the decision came from a registered type of the request
\* or from a rule that reached the floor.
FromRuleOrType == HasRegisteredType \/ BestScore >= ScoreFloor

\* The request carries the media the intent of the decision is rewarded for.
MediaBonusApplies ==
  \/ /\ outcome.value.detected_intent = "material_adaptation"
     /\ ("image" \in DOMAIN request_data \/ "file" \in DOMAIN request_data)
  \/ /\ outcome.value.detected_intent = "assessment"
     /\ "audio" \in DOMAIN request_data

\* C20: the confidence of a decision whose intent came from a rule or from
\* the type of the request is min(1.0, 0.8 + 0.1 for a text of more than 50
\* characters + 0.15 for the media of the intent).
C20_ConfidenceFormula ==
  (Decided /\ FromRuleOrType)
  => outcome.value.confidence
       = Min(ConfidenceCap,
             BaseConfidence
             + (IF outcome.value.input_analysis.input_length > 50
                THEN LengthBonus ELSE 0)
             + (IF MediaBonusApplies THEN MediaBonus ELSE 0))

\* A text of exactly 50 characters, routed by a rule, without media: 0.8.
C20_Witness ==
  /\ Decided
  /\ ~HasRegisteredType
  /\ BestScore >= ScoreFloor
  /\ outcome.value.input_analysis.input_length = 50
  /\ ~MediaBonusApplies
  /\ outcome.value.confidence = BaseConfidence

\* What the confidence of the decision holds beyond the base and the bonus
\* for length.
BeyondLength ==
  outcome.value.confidence
  - (BaseConfidence
     + (IF outcome.value.input_analysis.input_length > 50
        THEN LengthBonus ELSE 0))

\* C21: the bonus for media is in the confidence of a decision exactly when
\* the intent is material_adaptation and the request has a top-level image
\* or file key, or the intent is assessment and the request has a top-level
\* audio key, whatever the keys hold; it is added once at most.
C21_MediaBonusByKey ==
  Decided
  => /\ BeyondLength > 0 <=> MediaBonusApplies
     /\ BeyondLength <= MediaBonus
     /\ outcome.value.input_analysis.input_length <= 50
        => BeyondLength \in {0, MediaBonus}

\* An image key that holds None earns the bonus.
C21_Witness ==
  /\ Decided
  /\ outcome.value.detected_intent = "material_adaptation"
  /\ DOMAIN request_data = {"text", "image"}
  /\ request_data["image"] = NoneVal
  /\ outcome.value.confidence = BaseConfidence + MediaBonus

\* C22: with an empty rule table _detect_intent returns question_answering
\* for every text, and the decision of process is question_answering,
\* KnowledgeExplainer, with the base confidence 0.3 (0.4 for a text of more
\* than 50 characters).
C22_EmptyTableDefault ==
  intent_patterns = <<>>
  => /\ call = "_detect_intent" => outcome = Return("question_answering")
     /\ (call = "process" /\ TextFound)
        => /\ outcome.status = "return"
           /\ outcome.value.detected_intent = "question_answering"
           /\ outcome.value.target_agent = "KnowledgeExplainer"
           /\ outcome.value.confidence
                = FallbackConfidence
                  + (IF outcome.value.input_analysis.input_length > 50
                     THEN LengthBonus ELSE 0)

\* A request typed material_adaptation with an image, decided on the empty
\* table: the default intent with confidence 0.3.
C22_Witness ==
  /\ intent_patterns = <<>>
  /\ Decided
  /\ "type" \in DOMAIN request_data
  /\ request_data["type"] = StrVal(Codes("material_adaptation"))
  /\ "image" \in DOMAIN request_data
  /\ outcome.value.detected_intent = "question_answering"
  /\ outcome.value.target_agent = "KnowledgeExplainer"
  /\ outcome.value.confidence = FallbackConfidence

\* The hints h are those of the intent: the three common keys, the extras
\* of the intent and of no other, and the record the intent gets with the
\* empty request.
HintsOfIntent(h, intent) ==
  /\ {"priority", "expected_output_type", "processing_time_estimate"}
       \subseteq DOMAIN h
  /\ "content_type" \in DOMAIN h <=> intent = "content_generation"
  /\ "content_type" \in DOMAIN h => h.content_type = "educational"
  /\ "requires_image_processing" \in DOMAIN h <=> intent = "material_adaptation"
  /\ "requires_image_processing" \in DOMAIN h => h.requires_image_processing
  /\ "requires_audio_processing" \in DOMAIN h <=> intent = "assessment"
  /\ "requires_audio_processing" \in DOMAIN h => h.requires_audio_processing
  /\ h = GetProcessingHints(intent, NoKeys)

\* C23: the processing hints are a function of the intent alone, in a
\* direct call and in every decision, whatever the request.
C23_HintsByIntent ==
  /\ call = "_get_processing_hints" => HintsOfIntent(outcome.value, arg)
  /\ Decided
     => HintsOfIntent(outcome.value.routing_data.processing_hints,
                      outcome.value.detected_intent)

\* The hints of material_adaptation for a request with audio and no image.
C23_Witness ==
  /\ call = "_get_processing_hints"
  /\ arg = "material_adaptation"
  /\ "audio" \in DOMAIN request_data
  /\ "image" \notin DOMAIN request_data
  /\ outcome.value.requires_image_processing
  /\ "requires_audio_processing" \notin DOMAIN outcome.value

\* C25: execute_with_monitoring returns whatever process does: an error
\* response with success false, the type of the error and metadata when
\* process raises, success true with the result under data when it
\* returns; the rule table of the agent is as it was.
C25_NeverPropagates ==
  /\ call = "orchestrator.execute_with_monitoring"
     => /\ outcome.status = "return"
        /\ "metadata" \in DOMAIN outcome.value
        /\ intent_patterns = IntentPatternsInit
        /\ TextFound
           => /\ outcome.value.success
              /\ outcome.value.data = Process(intent_patterns, request_data).value
        /\ ~TextFound
           => /\ ~outcome.value.success
              /\ outcome.value.error = Process(intent_patterns, request_data).error
  /\ call = "execute_with_monitoring"
     => /\ outcome.status = "return"
        /\ "metadata" \in DOMAIN outcome.value
        /\ outcome.value.success <=> "data" \in DOMAIN outcome.value
        /\ ~outcome.value.success <=> "error" \in DOMAIN outcome.value

\* The input-missing error of the router, handed back as an error response.
C25_Witness ==
  /\ call = "orchestrator.execute_with_monitoring"
  /\ request_data = TextOnly(<<32, 32>>)
  /\ outcome.status = "return"
  /\ ~outcome.value.success
  /\ outcome.value.error = "ValueError"

\* The request of the last process_query call is typed content_generation.
ForContentGenerator == request_data.type = StrVal(Codes("content_generation"))

C26_InputCheckBeforeType ==
  (/\ call = "process"
   /\ HasRegisteredType
   /\ ExtractInputText(request_data) = Return(<<>>))
  => /\ outcome = Raise("ValueError")
     /\ outcome = Process(intent_patterns, WithoutType(request_data))

\* A request typed material_adaptation with an image and a text of
\* whitespace is refused.
C26_Witness ==
  /\ call = "process"
  /\ HasRegisteredType
  /\ request_data["type"] = StrVal(Codes("material_adaptation"))
  /\ "image" \in DOMAIN request_data
  /\ "text" \in DOMAIN request_data
  /\ request_data["text"] = StrVal(<<32, 32>>)
  /\ outcome = Raise("ValueError")

KeywordsNeeded(i) == IF Len(intent_patterns[i].keywords) = 6 THEN 2 ELSE 3

\* C28: a rule without a matching pattern is selected by its score only
\* with 2 of its 6 or 3 of its 7 keywords in the text; a text that matches
\* nothing but one keyword of one rule, or two keywords of a rule of seven,
\* goes to question_answering.
C28_KeywordCoverage ==
  ((call = "_detect_intent" \/ (Decided /\ ~HasRegisteredType))
   /\ intent_patterns = IntentPatternsInit)
  => \A i \in 1..Len(intent_patterns) :
       /\ Len(intent_patterns[i].keywords) = (IF i \in {1, 2} THEN 7 ELSE 6)
       /\ (/\ BestScore >= ScoreFloor
           /\ Detected = intent_patterns[i].intent
           /\ ~intent_scores[i].pattern_hit)
          => intent_scores[i].keyword_matches >= KeywordsNeeded(i)
       /\ (/\ OnlyRule(i)
           /\ ~intent_scores[i].pattern_hit
           /\ \/ intent_scores[i].keyword_matches = 1
              \/ /\ intent_scores[i].keyword_matches = 2
                 /\ Len(intent_patterns[i].keywords) = 7)
          => Detected = "question_answering"

\* Three of the seven keywords of content_generation and no pattern: the
\* rule is selected.
C28_Witness ==
  /\ call = "_detect_intent"
  /\ arg = Codes("story lesson content")
  /\ ~intent_scores[1].pattern_hit
  /\ intent_scores[1].keyword_matches = 3
  /\ BestScore >= ScoreFloor
  /\ outcome = Return("content_generation")

\* C29: in every decision the two language fields agree, input_length is
\* the length of the extracted text, which is trimmed and not empty, and
\* original_request is the request as received.
C29_AnalysisAgrees ==
  Decided
  => /\ outcome.value.routing_data.detected_language
          = outcome.value.input_analysis.language
     /\ outcome.value.input_analysis.language
          = DetectLanguage(ExtractInputText(request_data).value)
     /\ outcome.value.input_analysis.input_length
          = Len(ExtractInputText(request_data).value)
     /\ Strip(ExtractInputText(request_data).value)
          = ExtractInputText(request_data).value
     /\ outcome.value.input_analysis.input_length >= 1
     /\ outcome.value.routing_data.original_request = request_data

\* A decision on a text in Devanagari: both fields say Hindi.
C29_Witness ==
  /\ Decided
  /\ outcome.value.routing_data.detected_language = "hi"
  /\ outcome.value.input_analysis.language = "hi"
  /\ outcome.value.input_analysis.input_length = MaxChars
  /\ outcome.value.routing_data.original_request = request_data

====
